---------------------------- MODULE Spec2Model ----------------------------
(***************************************************************************)
(* The collection pass of the ClamAV Prometheus exporter:                  *)
(* Collector.Collect dials PING, STATS and VERSION in turn, matches        *)
(* regular expressions against the replies, converts the captured tokens   *)
(* with strconv.ParseFloat and sends constant metrics on the channel.      *)
(*                                                                         *)
(* Two files of the repository define Collect: pkg/collector/collector.go  *)
(* and unnamed/part_000 (an earlier variant that only reads pools_used).   *)
(* The variable impl says which of the two was built into the process.     *)
(*                                                                         *)
(* A byte string is a sequence of one-character strings.                   *)
(***************************************************************************)
EXTENDS Integers, Sequences, FiniteSets, TLC

VARIABLES impl, pc, pong, stats, version, dials, ch

vars == <<impl, pc, pong, stats, version, dials, ch>>

---------------------------------------------------------------------------
(* Bounds of the model.                                                    *)

\* Longest run of stray bytes in a PING reply.
MaxJunk == 1

\* Length of the over-long digit token (more digits than any float64 has).
OverLongDigits == 310

---------------------------------------------------------------------------
(* Characters.                                                             *)

Digit == {"0", "1", "2", "3", "4", "5", "6", "7", "8", "9"}

DigitDot == Digit \cup {"."}

\* \s of Go's regexp syntax: [\t\n\f\r ].
Space == {" ", "\t", "\n", "\f", "\r"}

DigitChars == <<"0", "1", "2", "3", "4", "5", "6", "7", "8", "9">>

SetMin(S) == CHOOSE x \in S : \A y \in S : x <= y

SetMax(S) == CHOOSE x \in S : \A y \in S : x >= y

---------------------------------------------------------------------------
(* Regular expressions (package regexp: the leftmost match, and among the  *)
(* matches at one place the one a backtracking search finds first).        *)
(* A compiled expression is [elems, ngroups, whole]: whole is the set of   *)
(* capture groups that enclose the whole expression, elems a sequence of   *)
(*   lit   a literal string                                                *)
(*   cls   a character class repeated min..max times, greedy (max 0: no    *)
(*         upper limit)                                                    *)
(*   alt   an alternation of lit and cls elements, tried left to right     *)
(*   rep   a literal repeated at least min times, greedy                   *)
(* each with g, the capture group whose parentheses enclose the element    *)
(* (0: none; for rep the parentheses are inside the repetition).           *)

Lit(s) == [k |-> "lit", s |-> s, g |-> 0]

Cls(set, min, max, g) == [k |-> "cls", set |-> set, min |-> min, max |-> max, g |-> g]

Alt(alts, g) == [k |-> "alt", alts |-> alts, g |-> g]

Rep(s, min, g) == [k |-> "rep", s |-> s, min |-> min, g |-> g]

\* Whether lit occurs in s at position pos.
HasAt(s, pos, lit) ==
    /\ pos + Len(lit) - 1 <= Len(s)
    /\ \A i \in 1..Len(lit) : s[pos + i - 1] = lit[i]

\* Length of the longest run of characters of set in s from position pos.
RunLen(s, pos, set) ==
    SetMin({i \in pos..Len(s) : s[i] \notin set} \cup {Len(s) + 1}) - pos

\* Number of consecutive copies of lit in s from position pos.
RECURSIVE RepCount(_, _, _)
RepCount(s, pos, lit) ==
    IF HasAt(s, pos, lit) THEN 1 + RepCount(s, pos + Len(lit), lit) ELSE 0

\* The positions at which element e can end when it starts at pos, in the
\* order the search prefers them.
RECURSIVE ElemEnds(_, _, _)
RECURSIVE AltEnds(_, _, _, _)
ElemEnds(e, s, pos) ==
    CASE e.k = "lit" -> IF HasAt(s, pos, e.s) THEN <<pos + Len(e.s)>> ELSE <<>>
      [] e.k = "cls" ->
            LET run == RunLen(s, pos, e.set)
                n   == IF e.max > 0 /\ run > e.max THEN e.max ELSE run
            IN  IF n < e.min THEN <<>>
                ELSE [i \in 1..(n - e.min + 1) |-> pos + n - (i - 1)]
      [] e.k = "alt" -> AltEnds(e.alts, 1, s, pos)
      [] e.k = "rep" ->
            LET c == RepCount(s, pos, e.s)
            IN  IF c < e.min THEN <<>>
                ELSE [i \in 1..(c - e.min + 1) |-> pos + (c - (i - 1)) * Len(e.s)]

AltEnds(alts, j, s, pos) ==
    IF j > Len(alts) THEN <<>>
    ELSE ElemEnds(alts[j], s, pos) \o AltEnds(alts, j + 1, s, pos)

\* The captures after element e matched s from pos up to end.
Capture(e, s, pos, end, caps) ==
    IF e.g = 0 THEN caps
    ELSE [caps EXCEPT ![e.g] = IF e.k = "rep" THEN e.s ELSE SubSeq(s, pos, end - 1)]

\* The match of elements k.. of pat against s from pos that the
\* backtracking search finds first: the first end of element k, in the order
\* of preference, from which the rest of the pattern matches (after the last
\* element nothing is left to match, and its first end is taken).
RECURSIVE MatchHere(_, _, _, _, _)
MatchHere(pat, k, s, pos, caps) ==
    IF k > Len(pat) THEN [ok |-> TRUE, end |-> pos, caps |-> caps]
    ELSE LET ends == ElemEnds(pat[k], s, pos)
         IN  IF Len(ends) = 0 THEN [ok |-> FALSE, end |-> pos, caps |-> caps]
             ELSE IF Len(ends) = 1 \/ k = Len(pat)
             THEN MatchHere(pat, k + 1, s, ends[1],
                            Capture(pat[k], s, pos, ends[1], caps))
             ELSE LET rest == {[i |-> i,
                                r |-> MatchHere(pat, k + 1, s, ends[i],
                                                Capture(pat[k], s, pos, ends[i], caps))]
                                 : i \in 1..Len(ends)}
                      good == {x \in rest : x.r.ok}
                  IN  IF good = {} THEN [ok |-> FALSE, end |-> pos, caps |-> caps]
                      ELSE (CHOOSE x \in good : \A y \in good : x.i <= y.i).r

MatchAt(re, s, pos) ==
    MatchHere(re.elems, 1, s, pos, [g \in 1..re.ngroups |-> <<>>])

\* The successive non-overlapping matches among found (the matches of re at
\* every position of s) from position pos on, each a vector indexed
\* 0..ngroups (0: the match).
RECURSIVE Successive(_, _, _, _)
Successive(re, s, found, pos) ==
    LET left == {x \in found : x.p >= pos}
    IN  IF left = {} THEN <<>>
        ELSE LET first == CHOOSE x \in left : \A y \in left : x.p <= y.p
                 next  == IF first.r.end = first.p THEN first.p + 1 ELSE first.r.end
                 m     == [g \in 0..re.ngroups |->
                             IF g = 0 \/ g \in re.whole
                             THEN SubSeq(s, first.p, first.r.end - 1)
                             ELSE first.r.caps[g]]
             IN  <<m>> \o Successive(re, s, found, next)

\* regexp.FindAllStringSubmatch(s, -1).  (No expression of the collector
\* matches the empty string.)
FindAllStringSubmatch(re, s) ==
    LET tries == {[p |-> p, r |-> MatchAt(re, s, p)] : p \in 1..(Len(s) + 1)}
    IN  Successive(re, s, {x \in tries : x.r.ok}, 1)

---------------------------------------------------------------------------
(* strconv.ParseFloat(s, 64) on the tokens the expressions capture, which  *)
(* hold digits and dots only: ErrSyntax without a digit or with two dots,  *)
(* ErrRange when the numeral rounds beyond the largest float64.  A value   *)
(* is the float64 nearest to the decimal numeral [int, frac]: the integer  *)
(* digits without leading zeros, the fraction digits without trailing      *)
(* zeros.                                                                  *)

\* 2^1024 - 2^970: the least decimal that rounds beyond the largest float64.
MaxFloat64Round ==
    <<"1","7","9","7","6","9","3","1","3","4","8","6","2","3","1","5","8","0","7","9","3",
      "7","2","8","9","7","1","4","0","5","3","0","3","4","1","5","0","7","9","9","3","4",
      "1","3","2","7","1","0","0","3","7","8","2","6","9","3","6","1","7","3","7","7","8",
      "9","8","0","4","4","4","9","6","8","2","9","2","7","6","4","7","5","0","9","4","6",
      "6","4","9","0","1","7","9","7","7","5","8","7","2","0","7","0","9","6","3","3","0",
      "2","8","6","4","1","6","6","9","2","8","8","7","9","1","0","9","4","6","5","5","5",
      "5","4","7","8","5","1","9","4","0","4","0","2","6","3","0","6","5","7","4","8","8",
      "6","7","1","5","0","5","8","2","0","6","8","1","9","0","8","9","0","2","0","0","0",
      "7","0","8","3","8","3","6","7","6","2","7","3","8","5","4","8","4","5","8","1","7",
      "7","1","1","5","3","1","7","6","4","4","7","5","7","3","0","2","7","0","0","6","9",
      "8","5","5","5","7","1","3","6","6","9","5","9","6","2","2","8","4","2","9","1","4",
      "8","1","9","8","6","0","8","3","4","9","3","6","4","7","5","2","9","2","7","1","9",
      "0","7","4","1","6","8","4","4","4","3","6","5","5","1","0","7","0","4","3","4","2",
      "7","1","1","5","5","9","6","9","9","5","0","8","0","9","3","0","4","2","8","8","0",
      "1","7","7","9","0","4","1","7","4","4","9","7","7","9","2">>

StripLeadingZeros(d) ==
    SubSeq(d, SetMin({i \in 1..Len(d) : d[i] # "0"} \cup {Len(d) + 1}), Len(d))

StripTrailingZeros(d) ==
    SubSeq(d, 1, SetMax({i \in 1..Len(d) : d[i] # "0"} \cup {0}))

\* a >= b for two numerals without leading zeros.
DecGE(a, b) ==
    \/ Len(a) > Len(b)
    \/ /\ Len(a) = Len(b)
       /\ LET diff == {i \in 1..Len(a) : a[i] # b[i]}
          IN  \/ diff = {}
              \/ LET i == SetMin(diff)
                     va == CHOOSE v \in 1..10 : DigitChars[v] = a[i]
                     vb == CHOOSE v \in 1..10 : DigitChars[v] = b[i]
                 IN  va > vb

ParseFloat(s) ==
    LET dots   == {i \in 1..Len(s) : s[i] = "."}
        digits == {i \in 1..Len(s) : s[i] \in Digit}
        syntax == \/ Cardinality(dots) > 1
                  \/ digits = {}
                  \/ Cardinality(dots) + Cardinality(digits) # Len(s)
        dot    == IF dots = {} THEN Len(s) + 1 ELSE SetMin(dots)
        ip     == StripLeadingZeros(SubSeq(s, 1, dot - 1))
        fp     == StripTrailingZeros(SubSeq(s, dot + 1, Len(s)))
    IN  IF syntax THEN [err |-> "ErrSyntax", val |-> [int |-> <<>>, frac |-> <<>>]]
        ELSE IF DecGE(ip, MaxFloat64Round)
        THEN [err |-> "ErrRange", val |-> [int |-> <<>>, frac |-> <<>>]]
        ELSE [err |-> "nil", val |-> [int |-> ip, frac |-> fp]]

---------------------------------------------------------------------------
(* The collector: its descriptors, its expressions, its helpers.           *)

Impls == {"collector.go", "part_000"}

\* New: the fully-qualified name of each descriptor.
New(file) ==
    [up          |-> "clamav_up",
     threadsLive |-> "clamav_threads_live",
     threadsIdle |-> "clamav_threads_idle",
     threadsMax  |-> "clamav_threads_max",
     queue       |-> "clamav_queue",
     memHeap     |-> "clamav_mem_heap",
     memMmap     |-> "clamav_mem_mmap",
     memUsed     |-> "clamav_mem_used",
     buildInfo   |-> "clamav_build_info",
     poolsUsed   |-> IF file = "collector.go" THEN "clamav_pools_used_mb"
                     ELSE "clamav_pools_used",
     poolsTotal  |-> IF file = "collector.go" THEN "clamav_pools_total_mb"
                     ELSE "clamav_pools_total"]

\* prometheus.MustNewConstMetric: one observation.
MustNewConstMetric(desc, valueType, value, labelValues) ==
    [desc |-> desc, valueType |-> valueType, value |-> value,
     labels |-> labelValues]

\* The float64 1.
One == [int |-> <<"1">>, frac |-> <<>>]

\* The acknowledgement the PING reply is compared with.
PongNoNewline == <<"P","O","N","G">>

PONG == <<"P","O","N","G","\n">>

\* bytes.Compare(a, b) = 0 exactly when a and b are the same bytes (only the
\* comparison with 0 is used); 1 stands for either non-zero result.
BytesComparePrefix(a, b) ==
    IF \A i \in 1..(IF Len(a) < Len(b) THEN Len(a) ELSE Len(b)) : a[i] = b[i]
    THEN 0 ELSE 1

BytesCompare(a, b) ==
    IF Len(a) = Len(b) /\ \A i \in 1..Len(a) : a[i] = b[i] THEN 0 ELSE 1

\* "THREADS: live ([0-9]+)  idle ([0-9]+) max ([0-9]+) "
RegexThreads ==
    [elems |-> <<Lit(<<"T","H","R","E","A","D","S",":"," ","l","i","v","e"," ">>), Cls(Digit, 1, 0, 1),
                 Lit(<<" "," ","i","d","l","e"," ">>), Cls(Digit, 1, 0, 2),
                 Lit(<<" ","m","a","x"," ">>), Cls(Digit, 1, 0, 3), Lit(<<" ">>)>>,
     ngroups |-> 3, whole |-> {}]

\* "QUEUE:: ([0-9]+) items"
RegexQueue ==
    [elems |-> <<Lit(<<"Q","U","E","U","E",":",":"," ">>), Cls(Digit, 1, 0, 1), Lit(<<" ","i","t","e","m","s">>)>>,
     ngroups |-> 1, whole |-> {}]

\* (N/A|[0-9]+) as capture group g.
NaOrDigits(g) == Alt(<<Lit(<<"N","/","A">>), Cls(Digit, 1, 0, 0)>>, g)

\* "MEMSTATS: heap (N/A|[0-9]+) mmap (N/A|[0-9]+) used (N/A|[0-9]+)
\*  free (N/A|[0-9]+) releasable (N/A|[0-9]+) pools ([0-9]+)
\*  pools_used ([0-9.]+)M pools_total ([0-9.]+)M"
RegexMemstats ==
    [elems |-> <<Lit(<<"M","E","M","S","T","A","T","S",":"," ","h","e","a","p"," ">>), NaOrDigits(1),
                 Lit(<<" ","m","m","a","p"," ">>), NaOrDigits(2),
                 Lit(<<" ","u","s","e","d"," ">>), NaOrDigits(3),
                 Lit(<<" ","f","r","e","e"," ">>), NaOrDigits(4),
                 Lit(<<" ","r","e","l","e","a","s","a","b","l","e"," ">>), NaOrDigits(5),
                 Lit(<<" ","p","o","o","l","s"," ">>), Cls(Digit, 1, 0, 6),
                 Lit(<<" ","p","o","o","l","s","_","u","s","e","d"," ">>), Cls(DigitDot, 1, 0, 7),
                 Lit(<<"M"," ","p","o","o","l","s","_","t","o","t","a","l"," ">>), Cls(DigitDot, 1, 0, 8),
                 Lit(<<"M">>)>>,
     ngroups |-> 8, whole |-> {}]

\* "((ClamAV)+\\s([0-9.]*)/([0-9.]*))"
RegexVersion ==
    [elems |-> <<Rep(<<"C","l","a","m","A","V">>, 1, 2), Cls(Space, 1, 1, 0),
                 Cls(DigitDot, 0, 0, 3), Lit(<<"/">>), Cls(DigitDot, 0, 0, 4)>>,
     ngroups |-> 4, whole |-> {1}]

\* part_000: "([0-9.]+)"
RegexNumbers ==
    [elems |-> <<Cls(DigitDot, 1, 0, 1)>>, ngroups |-> 1, whole |-> {}]

\* part_000: "pools_used ([0-9.]+)M"
RegexPoolsUsed ==
    [elems |-> <<Lit(<<"p","o","o","l","s","_","u","s","e","d"," ">>), Cls(DigitDot, 1, 0, 1), Lit(<<"M">>)>>,
     ngroups |-> 1, whole |-> {}]

\* A gauge the STATS step is about to send: the descriptor and the captured
\* token that the float helper converts first.
Gauge(desc, token) == [desc |-> desc, token |-> token]

\* collector.go: the gauges of the STATS step, in the order of the code.
StatsGauges(d, reply) ==
    LET threads == FindAllStringSubmatch(RegexThreads, reply)
        queue   == FindAllStringSubmatch(RegexQueue, reply)
        mem     == FindAllStringSubmatch(RegexMemstats, reply)
        NotNA(desc, token) ==
            IF token # <<"N","/","A">> THEN <<Gauge(desc, token)>> ELSE <<>>
    IN  (IF Len(threads) > 0
         THEN <<Gauge(d.threadsLive, threads[1][1]),
                Gauge(d.threadsIdle, threads[1][2]),
                Gauge(d.threadsMax, threads[1][3])>>
         ELSE <<>>)
        \o (IF Len(queue) > 0 THEN <<Gauge(d.queue, queue[1][1])>> ELSE <<>>)
        \o (IF Len(mem) > 0
            THEN NotNA(d.memHeap, mem[1][1]) \o NotNA(d.memMmap, mem[1][2])
                 \o NotNA(d.memUsed, mem[1][3])
                 \o <<Gauge(d.poolsUsed, mem[1][7]), Gauge(d.poolsTotal, mem[1][8])>>
            ELSE <<>>)

\* part_000: the matches of "([0-9.]+)" are counted and logged only (the
\* sends that used them are commented out); pools_used is the one gauge.
StatsGaugesPart000(d, reply) ==
    LET numbers == FindAllStringSubmatch(RegexNumbers, reply)
        used    == FindAllStringSubmatch(RegexPoolsUsed, reply)
    IN  (IF Len(numbers) > 0 THEN <<>> ELSE <<>>)
        \o (IF Len(used) > 0 THEN <<Gauge(d.poolsUsed, used[1][1])>> ELSE <<>>)

\* The float helper: log.Fatalf, which exits the process, when ParseFloat
\* returns an error.  Sending the gauges in order stops at the first token
\* that does not convert: [sent, fatal].
SendGauges(gauges) ==
    LET bad == {i \in 1..Len(gauges) : ParseFloat(gauges[i].token).err # "nil"}
        n   == IF bad = {} THEN Len(gauges) ELSE SetMin(bad) - 1
    IN  [sent  |-> [i \in 1..n |->
                      MustNewConstMetric(gauges[i].desc, "gauge",
                                         ParseFloat(gauges[i].token).val, <<>>)],
         fatal |-> bad # {}]

---------------------------------------------------------------------------
(* The replies Dial can return.                                            *)

RECURSIVE Itoa(_)
Itoa(n) ==
    IF n < 10 THEN <<DigitChars[n + 1]>>
    ELSE Itoa(n \div 10) \o <<DigitChars[(n % 10) + 1]>>

\* Runs of 1..MaxJunk stray bytes.
Junk == UNION {[1..n -> {"X", "\n"}] : n \in 1..MaxJunk}

PingReplies ==
    {SubSeq(<<"P","O","N","G","\n">>, 1, k) : k \in 0..5}
    \cup {<<"P","O","N","G","\n">> \o j : j \in Junk}
    \cup {<<"p","o","n","g","\n">>, <<"P","O","N","G","\r">>}

OverLong == [i \in 1..OverLongDigits |-> "9"]

NA == <<"N","/","A">>

ThreadTriples == {<<10, 2, 12>>}

ThreadsLines ==
    UNION {{<<"T","H","R","E","A","D","S",":"," ","l","i","v","e"," ">> \o Itoa(t[1]) \o <<" "," ","i","d","l","e"," ">> \o Itoa(t[2])
              \o <<" ","m","a","x"," ">> \o Itoa(t[3]) \o <<" ","i","d","l","e","-","t","i","m","e","o","u","t"," ","3","0","\n">>,
            <<"T","H","R","E","A","D","S",":"," ","l","i","v","e"," ">> \o Itoa(t[1]) \o <<" "," ","i","d","l","e"," ">> \o Itoa(t[2])
              \o <<" ","m","a","x"," ">> \o Itoa(t[3]) \o <<"\n">>,
            <<"T","H","R","E","A","D","S",":"," ","l","i","v","e"," ">> \o Itoa(t[1]) \o <<" ","i","d","l","e"," ">> \o Itoa(t[2])
              \o <<" ","m","a","x"," ">> \o Itoa(t[3]) \o <<" ","i","d","l","e","-","t","i","m","e","o","u","t"," ","3","0","\n">>}
           : t \in ThreadTriples}

QueueLengths == {3}

QueueLines ==
    UNION {{<<"Q","U","E","U","E",":"," ">> \o Itoa(n) \o <<" ","i","t","e","m","s","\n">>,
            <<"Q","U","E","U","E",":",":"," ">> \o Itoa(n) \o <<" ","i","t","e","m","s","\n">>} : n \in QueueLengths}

TaskLines == <<"\t","I","N","S","T","R","E","A","M"," ","1",".","2","4","9","3","6","6"," ","i",
      "n","s","t","r","e","a","m","(","1","0",".","4","2",".","1","7","4",".","5","8","@",
      "4","1","9","3","8",")","\n","\t","I","D","L","E"," ","0",".","0","2","2","1","3",
      "3"," ","\n","\n">>

MemLine(heap, mmap, used, poolsUsed, poolsTotal) ==
    <<"M","E","M","S","T","A","T","S",":"," ","h","e","a","p"," ">> \o heap \o <<" ","m","m","a","p"," ">> \o mmap \o <<" ","u","s","e","d"," ">> \o used
    \o <<" ","f","r","e","e"," ","N","/","A"," ","r","e","l","e","a","s","a","b","l","e"," ",
      "N","/","A"," ","p","o","o","l","s"," ","1"," ","p","o","o","l","s","_","u","s","e",
      "d"," ">> \o poolsUsed
    \o <<"M"," ","p","o","o","l","s","_","t","o","t","a","l"," ">> \o poolsTotal \o <<"M","\n">>

HeapTokens == {NA, Itoa(1234)}

MmapTokens == {NA, Itoa(0)}

UsedTokens == {NA, Itoa(56)}

PoolsOk == <<<<"1","1","4","3",".","5","9","6">>, <<"1","1","4","3",".","6","3","2">>>>

PoolsPairs ==
    {PoolsOk, <<<<"1",".","2",".","3">>, <<"1","1","4","3",".","6","3","2">>>>, <<<<"1","1","4","3",".","5","9","6">>, <<"1",".","2",".","3">>>>,
     <<<<"1","7",".">>, <<".","5">>>>}

MemLines ==
    {MemLine(h, m, u, PoolsOk[1], PoolsOk[2])
       : h \in HeapTokens, m \in MmapTokens, u \in UsedTokens}
    \cup {MemLine(NA, NA, NA, p[1], p[2]) : p \in PoolsPairs}
    \cup {MemLine(Itoa(1234), Itoa(0), Itoa(56), p[1], p[2]) : p \in PoolsPairs}
    \cup {MemLine(OverLong, NA, NA, PoolsOk[1], PoolsOk[2]),
          MemLine(Itoa(1234), NA, OverLong, PoolsOk[1], PoolsOk[2])}

StatsReply(threads, queue, mem) ==
    <<"P","O","O","L","S",":"," ","1","\n","\n","S","T","A","T","E",":"," ","V","A","L",
      "I","D"," ","P","R","I","M","A","R","Y","\n">> \o threads \o queue \o TaskLines
    \o mem \o <<"E","N","D","\n">>

StatsReplies ==
    {<<>>, <<"M","E","M","S","T","A","T","S",":"," ","h","e","a","p"," ","N","/","A"," ","m","m",
      "a","p">>, <<"U","N","K","N","O","W","N"," ","C","O","M","M","A","N","D","\n">>}
    \cup Junk
    \cup {StatsReply(t, q, m) : t \in ThreadsLines \cup {<<>>},
                                q \in QueueLines \cup {<<>>},
                                m \in {<<>>, MemLine(NA, NA, NA, PoolsOk[1], PoolsOk[2])}}
    \cup {StatsReply(<<"T","H","R","E","A","D","S",":"," ","l","i","v","e"," ","1","0"," "," ","i","d","l",
      "e"," ","2"," ","m","a","x"," ","1","0"," ","i","d","l","e","-","t","i","m","e","o",
      "u","t"," ","3","0","\n">>,
                     <<"Q","U","E","U","E",":"," ","0"," ","i","t","e","m","s","\n">>, m) : m \in MemLines}

VersionReplies ==
    {<<>>, <<"C","l","a","m","A","V"," ","0",".","1","0","2",".","4","/","2","6","1","6","8","/",
      "T","u","e"," ","M","a","r"," ","1","0"," ","0","9",":","2","3",":","2","4"," ","2",
      "0","2","0","\n">>,
     <<"C","l","a","m","A","V"," ","0",".","1","0","2",".","4","/","2","6","1","6","8">>, <<"C","l","a","m","A","V"," ","0",".","1","0","2",".","4","\n">>, <<"C","l","a","m","A","V"," ","/">>,
     <<"C","l","a","m","A","V"," ","0",".","1","0","2",".","4","/">>, <<"C","l","a","m","A","V","C","l","a","m","A","V","\t","1","/","2">>, <<"c","l","a","m","a","v"," ","0",".","1","0","2",".","4","/","2","6","1","6","8",
      "\n">>,
     <<"C","l","a","m","A","V","0",".","1","0","2",".","4","/","2","6","1","6","8","\n">>}
    \cup Junk

\* collector.client.Dial: any reply, the empty one when the daemon is down.
Dial(command) ==
    CASE command = "PING"    -> PingReplies
      [] command = "STATS"   -> StatsReplies
      [] command = "VERSION" -> VersionReplies

---------------------------------------------------------------------------
(* One collection pass.  pc is the step the pass is about to take: START   *)
(* (no pass yet), LIVENESS, STATS, VERSION, DONE (Collect returned) or     *)
(* EXIT (log.Fatalf ended the process).                                    *)

Init ==
    /\ impl \in Impls
    /\ pc = "START"
    /\ pong = <<>>
    /\ stats = <<>>
    /\ version = <<>>
    /\ dials = <<>>
    /\ ch = <<>>

\* A scrape calls Collect with a fresh channel.
Scrape ==
    /\ pc \in {"START", "DONE"}
    /\ pc' = "LIVENESS"
    /\ pong' = <<>>
    /\ stats' = <<>>
    /\ version' = <<>>
    /\ dials' = <<>>
    /\ ch' = <<>>
    /\ UNCHANGED impl

Liveness ==
    /\ pc = "LIVENESS"
    /\ \E reply \in Dial("PING") :
          /\ pong' = reply
          /\ ch' = IF BytesCompare(reply, PONG) = 0
                   THEN Append(ch, MustNewConstMetric(New(impl).up, "counter", One, <<>>))
                   ELSE ch
    /\ dials' = Append(dials, "PING")
    /\ pc' = "STATS"
    /\ UNCHANGED <<impl, stats, version>>

Stats ==
    /\ pc = "STATS"
    /\ impl = "collector.go"
    /\ \E reply \in Dial("STATS") :
          LET r == SendGauges(StatsGauges(New(impl), reply))
          IN  /\ stats' = reply
              /\ ch' = ch \o r.sent
              /\ pc' = IF r.fatal THEN "EXIT" ELSE "VERSION"
    /\ dials' = Append(dials, "STATS")
    /\ UNCHANGED <<impl, pong, version>>

StatsPart000 ==
    /\ pc = "STATS"
    /\ impl = "part_000"
    /\ \E reply \in Dial("STATS") :
          LET r == SendGauges(StatsGaugesPart000(New(impl), reply))
          IN  /\ stats' = reply
              /\ ch' = ch \o r.sent
              /\ pc' = IF r.fatal THEN "EXIT" ELSE "VERSION"
    /\ dials' = Append(dials, "STATS")
    /\ UNCHANGED <<impl, pong, version>>

Version ==
    /\ pc = "VERSION"
    /\ \E reply \in Dial("VERSION") :
          LET matches == FindAllStringSubmatch(RegexVersion, reply)
          IN  /\ version' = reply
              /\ ch' = IF Len(matches) > 0
                       THEN Append(ch, MustNewConstMetric(New(impl).buildInfo, "gauge", One,
                                                          <<matches[1][3], matches[1][4]>>))
                       ELSE ch
    /\ dials' = Append(dials, "VERSION")
    /\ pc' = "DONE"
    /\ UNCHANGED <<impl, pong, stats>>

Next == Scrape \/ Liveness \/ Stats \/ StatsPart000 \/ Version

Spec == Init /\ [][Next]_vars

---------------------------------------------------------------------------
(* Vocabulary of the properties.                                           *)

\* The observations of descriptor desc on the channel.
Sent(desc) == {i \in 1..Len(ch) : ch[i].desc = desc}

\* Exactly one observation of desc was sent, a gauge of value v.
SentGauge(desc, v) ==
    /\ Cardinality(Sent(desc)) = 1
    /\ \A i \in Sent(desc) : ch[i].value = v /\ ch[i].valueType = "gauge"

\* The value of a numeral of digits.
IntegerValue(digits) == [int |-> StripLeadingZeros(digits), frac |-> <<>>]

\* The value of a numeral of digits with at most one dot.
DecimalValue(token) == ParseFloat(token).val

\* The liveness step, the STATS step, the whole pass has been taken.
LivenessTaken == Len(dials) >= 1

StatsTaken == Len(dials) >= 2

PassEnded == pc \in {"DONE", "EXIT"}

D == New(impl)

\* The shapes the daemon's lines have:
\* "THREADS: live <int>  idle <int> max <int>", whatever follows.
ThreadsShape ==
    [elems |-> <<Lit(<<"T","H","R","E","A","D","S",":"," ","l","i","v","e"," ">>), Cls(Digit, 1, 0, 1),
                 Lit(<<" "," ","i","d","l","e"," ">>), Cls(Digit, 1, 0, 2),
                 Lit(<<" ","m","a","x"," ">>), Cls(Digit, 1, 0, 3)>>,
     ngroups |-> 3, whole |-> {}]

\* "QUEUE: <n> items"
QueueShape ==
    [elems |-> <<Lit(<<"Q","U","E","U","E",":"," ">>), Cls(Digit, 1, 0, 1), Lit(<<" ","i","t","e","m","s">>)>>,
     ngroups |-> 1, whole |-> {}]

\* "ClamAV", whitespace, an engine version, "/", a database version.
VersionShape ==
    [elems |-> <<Lit(<<"C","l","a","m","A","V">>), Cls(Space, 1, 1, 0), Cls(DigitDot, 1, 0, 1),
                 Lit(<<"/">>), Cls(DigitDot, 1, 0, 2)>>,
     ngroups |-> 2, whole |-> {}]

StatsDescs ==
    {D.threadsLive, D.threadsIdle, D.threadsMax, D.queue, D.memHeap, D.memMmap,
     D.memUsed}

---------------------------------------------------------------------------
(* C1: whatever bytes Dial returns for PING, STATS and VERSION, a pass     *)
(* never terminates the process: a token that does not convert to a number *)
(* leaves only its own field absent and the pass goes on.                  *)
C1_NeverTerminates == pc # "EXIT"

(* C2: once the liveness step is taken, exactly one "up" observation, of   *)
(* value 1, is on the channel if the PING reply is the five bytes          *)
(* P O N G newline, and none otherwise; no "up" observation has another    *)
(* value.                                                                  *)
C2_UpIffPong ==
    LivenessTaken =>
        /\ pong = <<"P", "O", "N", "G", "\n">> => Cardinality(Sent("clamav_up")) = 1
        /\ pong # <<"P", "O", "N", "G", "\n">> => Sent("clamav_up") = {}
        /\ \A i \in Sent("clamav_up") : ch[i].value = [int |-> <<"1">>, frac |-> <<>>]

C2_Witness ==
    /\ pc = "DONE"
    /\ pong = <<"P", "O", "N", "G", "\n">>
    /\ Sent("clamav_up") # {}

(* C3: (collector.go) once the STATS step is taken, a reply with a line    *)
(* "THREADS: live a  idle b max c" (whatever follows c) has put            *)
(* threads_live = a, threads_idle = b and threads_max = c on the channel,  *)
(* and a reply without such a line none of the three.                      *)
C3_ThreadsRoundTrip ==
    (impl = "collector.go" /\ StatsTaken) =>
        LET m == FindAllStringSubmatch(ThreadsShape, stats)
        IN  IF Len(m) > 0
            THEN /\ SentGauge(D.threadsLive, IntegerValue(m[1][1]))
                 /\ SentGauge(D.threadsIdle, IntegerValue(m[1][2]))
                 /\ SentGauge(D.threadsMax, IntegerValue(m[1][3]))
            ELSE /\ Sent(D.threadsLive) = {}
                 /\ Sent(D.threadsIdle) = {}
                 /\ Sent(D.threadsMax) = {}

(* C4: (collector.go) once the STATS step is taken, a reply with a line    *)
(* "QUEUE: n items" has put one queue observation of value n on the        *)
(* channel, and a reply without one none.                                  *)
C4_QueueLength ==
    (impl = "collector.go" /\ StatsTaken) =>
        LET m == FindAllStringSubmatch(QueueShape, stats)
        IN  IF Len(m) > 0 THEN SentGauge(D.queue, IntegerValue(m[1][1]))
            ELSE Sent(D.queue) = {}

(* C5: (collector.go) once the STATS step is taken on a reply whose        *)
(* MEMSTATS line matches, each of mem_heap, mem_mmap and mem_used is on    *)
(* the channel exactly when its own captured token is not N/A, with the    *)
(* value of that token; without a matching line none of the three is.      *)
C5_MemPerField ==
    (impl = "collector.go" /\ StatsTaken) =>
        LET m == FindAllStringSubmatch(RegexMemstats, stats)
            Field(desc, token) ==
                IF token # <<"N", "/", "A">> THEN SentGauge(desc, IntegerValue(token))
                ELSE Sent(desc) = {}
        IN  IF Len(m) > 0
            THEN /\ Field(D.memHeap, m[1][1])
                 /\ Field(D.memMmap, m[1][2])
                 /\ Field(D.memUsed, m[1][3])
            ELSE /\ Sent(D.memHeap) = {}
                 /\ Sent(D.memMmap) = {}
                 /\ Sent(D.memUsed) = {}

(* C6: (collector.go) once the STATS step is taken on a reply whose        *)
(* MEMSTATS line matches, pools_used and pools_total are both on the       *)
(* channel, each with the value of its captured number (the M stripped);   *)
(* and neither is ever on the channel without the other.                   *)
C6_PoolsBoth ==
    (impl = "collector.go" /\ StatsTaken) =>
        LET m == FindAllStringSubmatch(RegexMemstats, stats)
        IN  /\ Len(m) > 0 =>
                  /\ SentGauge(D.poolsUsed, DecimalValue(m[1][7]))
                  /\ SentGauge(D.poolsTotal, DecimalValue(m[1][8]))
            /\ Sent(D.poolsUsed) = {} <=> Sent(D.poolsTotal) = {}

(* C7: (collector.go) once the STATS step is taken, if any observation     *)
(* derived from STATS (threads, queue, mem_heap, mem_mmap, mem_used) is on *)
(* the channel, pools_used_mb and pools_total_mb are both on it too.       *)
C7_PoolsWithAnyStats ==
    (impl = "collector.go" /\ StatsTaken) =>
        ((\E i \in 1..Len(ch) : ch[i].desc \in StatsDescs)
             => Sent(D.poolsUsed) # {} /\ Sent(D.poolsTotal) # {})

(* C8: when Collect has returned, one build_info observation of value 1 is *)
(* on the channel if the VERSION reply contains "ClamAV", whitespace, an   *)
(* engine version, "/" and a database version, its two labels being those  *)
(* two versions, and none otherwise; the labels of a build_info            *)
(* observation are never empty.                                            *)
C8_BuildInfo ==
    pc = "DONE" =>
        LET m == FindAllStringSubmatch(VersionShape, version)
        IN  /\ IF Len(m) > 0
               THEN /\ SentGauge(D.buildInfo, [int |-> <<"1">>, frac |-> <<>>])
                    /\ \A i \in Sent(D.buildInfo) : ch[i].labels = <<m[1][1], m[1][2]>>
               ELSE Sent(D.buildInfo) = {}
            /\ \A i \in Sent(D.buildInfo) :
                  ch[i].labels[1] # <<>> /\ ch[i].labels[2] # <<>>

(* C9: in a pass in which every reply so far was empty (the daemon is      *)
(* down) nothing is on the channel and the process has not exited.         *)
C9_DaemonDown ==
    (LivenessTaken /\ pong = <<>> /\ stats = <<>> /\ version = <<>>) =>
        ch = <<>> /\ pc # "EXIT"

C9_Witness ==
    /\ pc = "DONE"
    /\ dials = <<"PING", "STATS", "VERSION">>
    /\ pong = <<>> /\ stats = <<>> /\ version = <<>>
    /\ ch = <<>>

(* C10: the commands dialled are always the first ones of PING, STATS,     *)
(* VERSION in this order; a pass that has ended has dialled all three,     *)
(* whatever the replies were; and on the channel the "up" observation      *)
(* comes before those of STATS, which come before build_info.              *)
C10_Sequential ==
    /\ Len(dials) <= 3
    /\ dials = SubSeq(<<"PING", "STATS", "VERSION">>, 1, Len(dials))
    /\ PassEnded => dials = <<"PING", "STATS", "VERSION">>
    /\ \A i, j \in 1..Len(ch) :
          (i < j) => /\ ch[j].desc # D.up
                     /\ ch[i].desc # D.buildInfo

=============================================================================
